---- MODULE Spec2Model ----
(***************************************************************************)
(* Model of the DatabaseManager singleton (services/database): one         *)
(* nullable connection handle to the persistent store exam_engine.db,      *)
(* the migration runner with its tracking table, the catalog queries and   *)
(* the fixture loader.                                                     *)
(* Every store primitive (open, execute) may throw.                        *)
(* Further specifications of the same module cover the serialized question *)
(* content of the fixtures (JsonSpec), the foreign keys of the schema       *)
(* (SchemaSpec), the Button and Card components (UiSpec) and initialize     *)
(* called by several callers at once (CallersSpec).                         *)
(***************************************************************************)
EXTENDS Integers, Sequences, FiniteSets

\* ------------------------------------------------------------------ bounds
\* number of connections opened in one run
MaxOpens == 2
\* largest value Date.now() takes
MaxClock == 1

\* --------------------------------------------------------------- constants
NULL == 0

NotInitializedMsg == "Database not initialized. Call initialize() first."
ConnectionUnavailableMsg == "Database connection not available"
\* an error thrown by react-native-quick-sqlite (open or execute)
StoreError == "store error"
NoError == ""

\* the static migration list of runMigrations
MigrationList == <<"001_initial">>

\* the tracking table created by runMigrations
TrackingTable == "migrations"

\* the CREATE TABLE statements of getMigration001, in batch order
Migration001Tables ==
  <<"exams", "topics", "questions", "exhibits", "question_exhibits",
    "attempts", "attempt_items", "progress", "user_preferences",
    "content_packs">>

\* how many CREATE TABLE statements a failing batch has run: none, the first
\* two, or all of them (a CREATE INDEX statement failed)
FailedBatchPrefixes == {0, 2, Len(Migration001Tables)}

\* the table names of the schema in the order ORDER BY name returns them
\* (binary collation: '_' sorts before every lower-case letter)
NameOrder ==
  <<"attempt_items", "attempts", "content_packs", "exams", "exhibits",
    "migrations", "progress", "question_exhibits", "questions",
    "sqlite_stat1", "topics", "user_preferences">>

\* the statistics table the engine creates when ANALYZE is run
InternalTable == "sqlite_stat1"

\* the characters of a table name, as code points
Chars(n) ==
  CASE n = "attempt_items" ->
         <<97, 116, 116, 101, 109, 112, 116, 95, 105, 116, 101, 109, 115>>
    [] n = "attempts" ->
         <<97, 116, 116, 101, 109, 112, 116, 115>>
    [] n = "content_packs" ->
         <<99, 111, 110, 116, 101, 110, 116, 95, 112, 97, 99, 107, 115>>
    [] n = "exams" ->
         <<101, 120, 97, 109, 115>>
    [] n = "exhibits" ->
         <<101, 120, 104, 105, 98, 105, 116, 115>>
    [] n = "migrations" ->
         <<109, 105, 103, 114, 97, 116, 105, 111, 110, 115>>
    [] n = "progress" ->
         <<112, 114, 111, 103, 114, 101, 115, 115>>
    [] n = "question_exhibits" ->
         <<113, 117, 101, 115, 116, 105, 111, 110, 95, 101, 120, 104, 105, 98, 105, 116, 115>>
    [] n = "questions" ->
         <<113, 117, 101, 115, 116, 105, 111, 110, 115>>
    [] n = "sqlite_stat1" ->
         <<115, 113, 108, 105, 116, 101, 95, 115, 116, 97, 116, 49>>
    [] n = "topics" ->
         <<116, 111, 112, 105, 99, 115>>
    [] n = "user_preferences" ->
         <<117, 115, 101, 114, 95, 112, 114, 101, 102, 101, 114, 101, 110, 99, 101, 115>>
    [] n = "does_not_exist" ->
         <<100, 111, 101, 115, 95, 110, 111, 116, 95, 101, 120, 105, 115, 116>>

\* binary collation: a sorts strictly before b
RECURSIVE LexLess(_, _)
LexLess(a, b) ==
  IF b = <<>> THEN FALSE
  ELSE IF a = <<>> THEN TRUE
  ELSE IF Head(a) # Head(b) THEN Head(a) < Head(b)
  ELSE LexLess(Tail(a), Tail(b))

\* name LIKE 'sqlite_%': the letters of sqlite, any one character, any rest
LikeSqlite(n) ==
  /\ Len(Chars(n)) >= 7
  /\ SubSeq(Chars(n), 1, 6) = <<115, 113, 108, 105, 116, 101>>

\* names a caller passes to tableExists
QueriedNames == {"exams", "does_not_exist", "sqlite_stat1"}

\* the tables loadFixtures writes
FixtureTables == {"exams", "topics", "questions", "content_packs"}

\* mutant: the topic is inserted before the exam it references
FixtureInsertsTopicFirst ==
  <<[op |-> "insertTopic", table |-> "topics", key |-> <<"cbap_planning">>,
     stamped |-> FALSE,
     parents |-> {[table |-> "exams", key |-> <<"cbap">>]}],
    [op |-> "insertExam", table |-> "exams", key |-> <<"cbap">>,
     stamped |-> TRUE, parents |-> {}],
    [op |-> "insertQuestion", table |-> "questions",
     key |-> <<"q_cbap_planning_001">>, stamped |-> TRUE,
     parents |-> {[table |-> "exams", key |-> <<"cbap">>],
                  [table |-> "topics", key |-> <<"cbap_planning">>]}],
    [op |-> "insertContentPack", table |-> "content_packs",
     key |-> <<"cbap", "2025.01.01">>, stamped |-> TRUE,
     parents |-> {[table |-> "exams", key |-> <<"cbap">>]}]>>

\* the INSERT OR REPLACE statements of loadFixtures, in program order: the
\* primary key of the row, whether the row carries Date.now(), and the rows
\* its FOREIGN KEY clauses reference
FixtureInserts ==
  <<[op |-> "insertExam", table |-> "exams", key |-> <<"cbap">>,
     stamped |-> TRUE, parents |-> {}],
    [op |-> "insertTopic", table |-> "topics", key |-> <<"cbap_planning">>,
     stamped |-> FALSE,
     parents |-> {[table |-> "exams", key |-> <<"cbap">>]}],
    [op |-> "insertQuestion", table |-> "questions",
     key |-> <<"q_cbap_planning_001">>, stamped |-> TRUE,
     parents |-> {[table |-> "exams", key |-> <<"cbap">>],
                  [table |-> "topics", key |-> <<"cbap_planning">>]}],
    [op |-> "insertContentPack", table |-> "content_packs",
     key |-> <<"cbap", "2025.01.01">>, stamped |-> TRUE,
     parents |-> {[table |-> "exams", key |-> <<"cbap">>]}]>>

\* the insert of loadFixtures at which an injected failure is thrown
FixtureFailPoints ==
  {"none", "insertExam", "insertTopic", "insertQuestion", "insertContentPack"}

\* errors the engine raises by itself
NoSuchTableError == "no such table"
ForeignKeyError == "FOREIGN KEY constraint failed"

\* the store primitive at which an injected failure is thrown
FailPoints ==
  {"none", "open", "pragma", "createTracking", "check", "batch", "insert",
   "catalog"}

VARIABLES
  instance,    \* DatabaseManager.instance has been created
  db,          \* this.db: NULL or the index in conns of the open connection
  conns,       \* every connection open() returned: pragma and close() counts
  tables,      \* catalog of the persistent store: names of its tables
  migrations,  \* rows of the tracking table, in insertion order
  clock,       \* Date.now()
  log,         \* store primitives invoked by the most recent call, in order
  last,        \* the most recent call and how it ended
  initCalled,  \* initialize has been called at least once
  initOk,      \* an initialize call returned normally and no close() since
  constructed, \* number of DatabaseManager objects constructed
  tableRows,   \* rows of the tables loadFixtures writes, in rowid order
  jsonIn,      \* the question content object handed to JSON.stringify
  jsonText,    \* the serialized content: the tokens of the JSON text
  jsonOut,     \* the object JSON.parse returned
  jsonPc,      \* "built", "serialized" or "parsed"
  foreignKeysEnabled, \* PRAGMA foreign_keys = ON took effect on the connection
  storeRows,   \* rows of the question, exhibit and attempt tables
  storeLast,   \* the most recent INSERT or DELETE and how it ended
  mounted,     \* the component rendered: "button", "card" or "none"
  colorScheme, \* the theme of the ThemeProvider: "light" or "dark"
  buttonProps, \* the props of the Button, defaults applied
  isPressed,   \* the isPressed state of the Button
  everEnabled, \* the Button was rendered neither disabled nor loading
  cardProps,   \* the props of the Card
  cardIsPressed, \* the isPressed state of the Card
  onPressCalls, \* how often the onPress handler of the caller has run
  uiLast,      \* the most recent event on the component
  pc,          \* where each concurrent initialize call stands
  callerError, \* the error each call has thrown or will throw when resumed
  callerLog    \* the store primitives each call has invoked, in order

managerVars ==
  <<instance, db, conns, tables, migrations, clock, log, last, initCalled,
    initOk, constructed, tableRows>>

jsonVars == <<jsonIn, jsonText, jsonOut, jsonPc>>

\* the variables the DatabaseManager does not touch
schemaVars == <<foreignKeysEnabled, storeRows, storeLast>>

uiVars ==
  <<mounted, colorScheme, buttonProps, isPressed, everEnabled, cardProps,
    cardIsPressed, onPressCalls, uiLast>>

others == <<jsonVars, schemaVars, uiVars>>

callerVars == <<pc, callerError, callerLog>>

vars == <<managerVars, others, callerVars>>

\* ----------------------------------------------------------- call records
Returned(call) ==
  [call |-> call, arg |-> "", outcome |-> "return", error |-> NoError,
   conn |-> NULL, exists |-> FALSE, names |-> <<>>, object |-> 0]

Threw(call, msg) ==
  [call |-> call, arg |-> "", outcome |-> "throw", error |-> msg,
   conn |-> NULL, exists |-> FALSE, names |-> <<>>, object |-> 0]

\* ------------------------------------------------------------ the store
Prefix(s, n) == [i \in 1..n |-> s[i]]

Range(s) == {s[i] : i \in 1..Len(s)}

\* SELECT version FROM migrations WHERE version = ?
SelectVersion(rows, version) ==
  SelectSeq(rows, LAMBDA r : r.version = version)

\* number of successful open() calls and of close() calls on connections
RECURSIVE SumCloses(_, _)
SumCloses(cs, n) ==
  IF n = 0 THEN 0 ELSE cs[n].closes + SumCloses(cs, n - 1)

Opened == Len(conns)
Released == SumCloses(conns, Len(conns))

\* db.execute(sql) on the execution e: the primitive is logged, then it
\* either throws (the error is set, the store is untouched) or takes effect
Logged(e, op) == [e EXCEPT !.log = Append(@, op)]

Failed(e) == e.error # NoError

Throw(e, msg) == [e EXCEPT !.error = msg]

\* ------------------------------------------------------ DatabaseManager
\* mutant: the early return is missing
AlreadyInitializedNever(d) == FALSE

\* if (this.db) return;
AlreadyInitialized(d) == d # NULL

\* mutant: the handle is set to a placeholder before open() is called
OpenStoreHandleFirst(e, fail) ==
  LET e1 == [Logged(e, "open")
               EXCEPT !.conns = Append(@, [pragmas |-> 0, closes |-> 0]),
                      !.db = Len(e.conns) + 1] IN
  IF fail = "open" THEN Throw(e1, StoreError) ELSE e1

\* this.db = open({name}): a new connection, or open throws and the
\* assignment does not happen
OpenStore(e, fail) ==
  LET e1 == Logged(e, "open") IN
  IF fail = "open" THEN Throw(e1, StoreError)
  ELSE [e1 EXCEPT !.conns = Append(@, [pragmas |-> 0, closes |-> 0]),
                  !.db = Len(e.conns) + 1]

\* this.db.execute('PRAGMA foreign_keys = ON')
EnableForeignKeys(e, fail) ==
  LET e1 == Logged(e, "pragma") IN
  IF fail = "pragma" THEN Throw(e1, StoreError)
  ELSE [e1 EXCEPT !.conns[e.db].pragmas = @ + 1]

\* CREATE TABLE IF NOT EXISTS migrations (...)
CreateTrackingTable(e, fail) ==
  LET e1 == Logged(e, "createTracking") IN
  IF fail = "createTracking" THEN Throw(e1, StoreError)
  ELSE [e1 EXCEPT !.tables = @ \cup {TrackingTable}]

\* mutant: the tracking row is inserted before the batch is executed
ApplyMigrationRecordFirst(e, version, fail, k, now) ==
  LET e1 == Logged(e, "insert") IN
  IF fail = "insert" THEN Throw(e1, StoreError)
  ELSE
    LET e2 == Logged([e1 EXCEPT !.migrations =
                        Append(@, [version |-> version, applied_at |-> now])],
                     "batch") IN
    IF fail = "batch"
    THEN Throw([e2 EXCEPT !.tables =
                  @ \cup Range(Prefix(Migration001Tables, k))], StoreError)
    ELSE [e2 EXCEPT !.tables = @ \cup Range(Migration001Tables)]

\* the try block of runMigration: the batch, then the tracking row.  A batch
\* that throws has run its first k CREATE TABLE statements
ApplyMigration(e, version, fail, k, now) ==
  LET e1 == Logged(e, "batch") IN
  IF fail = "batch"
  THEN Throw([e1 EXCEPT !.tables = @ \cup Range(Prefix(Migration001Tables, k))],
             StoreError)
  ELSE
    LET e2 == Logged([e1 EXCEPT !.tables = @ \cup Range(Migration001Tables)],
                     "insert") IN
    IF fail = "insert" \/ TrackingTable \notin e2.tables
                       \/ SelectVersion(e2.migrations, version) # <<>>
    THEN Throw(e2, StoreError)
    ELSE [e2 EXCEPT !.migrations =
                      Append(@, [version |-> version, applied_at |-> now])]

\* mutant: the idempotent batch is executed before the version check
RunMigrationBatchFirst(e, version, fail, k, now) ==
  IF e.db = NULL THEN Throw(e, ConnectionUnavailableMsg)
  ELSE
    LET e1 == Logged(e, "batch") IN
    IF fail = "batch"
    THEN Throw([e1 EXCEPT !.tables =
                  @ \cup Range(Prefix(Migration001Tables, k))], StoreError)
    ELSE
      LET e2 == Logged([e1 EXCEPT !.tables = @ \cup Range(Migration001Tables)],
                       "check") IN
      IF fail = "check" THEN Throw(e2, StoreError)
      ELSE IF Len(SelectVersion(e2.migrations, version)) > 0 THEN e2
      ELSE
        LET e3 == Logged(e2, "insert") IN
        IF fail = "insert" THEN Throw(e3, StoreError)
        ELSE [e3 EXCEPT !.migrations =
                Append(@, [version |-> version, applied_at |-> now])]

\* mutant: the batch is applied without looking at the version check
RunMigrationNoSkip(e, version, fail, k, now) ==
  IF e.db = NULL THEN Throw(e, ConnectionUnavailableMsg)
  ELSE
    LET e1 == Logged(e, "check") IN
    IF fail = "check" \/ TrackingTable \notin e1.tables
    THEN Throw(e1, StoreError)
    ELSE ApplyMigration(e1, version, fail, k, now)

\* runMigration(version, migration)
RunMigration(e, version, fail, k, now) ==
  IF e.db = NULL THEN Throw(e, ConnectionUnavailableMsg)
  ELSE
    LET e1 == Logged(e, "check") IN
    IF fail = "check" \/ TrackingTable \notin e1.tables
    THEN Throw(e1, StoreError)
    ELSE IF Len(SelectVersion(e1.migrations, version)) > 0
    THEN e1
    ELSE ApplyMigration(e1, version, fail, k, now)

\* for (const {version, migration} of migrations) await runMigration(...)
RECURSIVE RunMigrationsFrom(_, _, _, _, _)
RunMigrationsFrom(i, e, fail, k, now) ==
  IF i > Len(MigrationList) \/ Failed(e) THEN e
  ELSE RunMigrationsFrom(i + 1, RunMigration(e, MigrationList[i], fail, k, now),
                         fail, k, now)

\* runMigrations()
RunMigrations(e, fail, k, now) ==
  IF e.db = NULL THEN Throw(e, ConnectionUnavailableMsg)
  ELSE
    LET e1 == CreateTrackingTable(e, fail) IN
    IF Failed(e1) THEN e1 ELSE RunMigrationsFrom(1, e1, fail, k, now)

\* mutant: the pragma is executed after the migrations
InitializeBodyPragmaLast(e, fail, k, now) ==
  LET e1 == OpenStore(e, fail) IN
  IF Failed(e1) THEN e1
  ELSE
    LET e2 == RunMigrations(e1, fail, k, now) IN
    IF Failed(e2) THEN e2 ELSE EnableForeignKeys(e2, fail)

\* the try block of initialize(); the catch block rethrows the error
InitializeBody(e, fail, k, now) ==
  LET e1 == OpenStore(e, fail) IN
  IF Failed(e1) THEN e1
  ELSE
    LET e2 == EnableForeignKeys(e1, fail) IN
    IF Failed(e2) THEN e2 ELSE RunMigrations(e2, fail, k, now)

\* initialize(), started on the state e with an empty log
InitializeResult(e, fail, k, now) ==
  IF AlreadyInitialized(e.db) THEN e ELSE InitializeBody(e, fail, k, now)

\* the state a call starts on
Start ==
  [db |-> db, conns |-> conns, tables |-> tables, migrations |-> migrations,
   rows |-> tableRows, log |-> <<>>, error |-> NoError]

Outcome(call, e) ==
  IF Failed(e) THEN Threw(call, e.error) ELSE Returned(call)

\* mutant: close() does not clear the handle
ClosedHandleKept(d) == d

\* this.db after close() released the connection
ClosedHandle(d) == NULL

\* mutant: close() clears the handle without releasing the connection
CloseResultNoRelease(e) ==
  IF e.db # NULL THEN [e EXCEPT !.db = NULL] ELSE e

\* close()
CloseResult(e) ==
  IF e.db # NULL
  THEN [Logged(e, "close") EXCEPT !.conns[e.db].closes = @ + 1,
                                  !.db = ClosedHandle(e.db)]
  ELSE e

\* mutant: the handle is returned without the null check
GetConnectionUnchecked(d) == [Returned("getConnection") EXCEPT !.conn = d]

\* getConnection() on the handle d
GetConnectionResult(d) ==
  IF ~(d # NULL) THEN Threw("getConnection", NotInitializedMsg)
  ELSE [Returned("getConnection") EXCEPT !.conn = d]

\* mutant: the query has no NOT LIKE 'sqlite_%' condition
CatalogNamesWithInternal(ts) == SelectSeq(NameOrder, LAMBDA n : n \in ts)

\* the names ORDER BY name returns for the tables of a catalog that are
\* NOT LIKE 'sqlite_%'
CatalogNames(ts) == SelectSeq(NameOrder, LAMBDA n : n \in ts /\ ~LikeSqlite(n))

\* the rows of the getAllTables query
CatalogRows(ts) ==
  LET ns == CatalogNames(ts) IN [i \in 1..Len(ns) |-> [name |-> ns[i]]]

\* result.rows.map(row => row.name), or the item(i) loop
RowNames(rs) == [i \in 1..Len(rs) |-> rs[i].name]

\* SELECT name FROM sqlite_master WHERE type='table' AND name=?
CatalogSelect(ts, name) == SelectSeq(NameOrder, LAMBDA n : n \in ts /\ n = name)

\* mutant: the length of the row list is not tested
TableExistsValueRowsOnly(ts, name) == TRUE

\* Boolean(result && result.rows && result.rows.length > 0)
TableExistsValue(ts, name) == Len(CatalogSelect(ts, name)) > 0

\* the rows of a table that have the primary key
RowsWithKey(rs, key) == SelectSeq(rs, LAMBDA r : r.key = key)

\* foreign keys are enforced on the connection of the execution
ForeignKeysOn(e) == e.conns[e.db].pragmas > 0

\* a row the statement references is missing
ParentMissing(e, ins) ==
  \E p \in ins.parents : RowsWithKey(e.rows[p.table], p.key) = <<>>

\* mutant: a plain INSERT that adds the row next to the old one
InsertOrReplacePlain(e, ins, fail, now) ==
  LET e1 == Logged(e, ins.op) IN
  IF fail = ins.op THEN Throw(e1, StoreError)
  ELSE IF ins.table \notin e1.tables THEN Throw(e1, NoSuchTableError)
  ELSE IF ForeignKeysOn(e1) /\ ParentMissing(e1, ins)
  THEN Throw(e1, ForeignKeyError)
  ELSE [e1 EXCEPT !.rows[ins.table] =
          Append(@, [key |-> ins.key,
                     at |-> IF ins.stamped THEN now ELSE 0])]

\* INSERT OR REPLACE INTO table VALUES (...): the row with the same primary
\* key is deleted, then the new row is added
InsertOrReplace(e, ins, fail, now) ==
  LET e1 == Logged(e, ins.op) IN
  IF fail = ins.op THEN Throw(e1, StoreError)
  ELSE IF ins.table \notin e1.tables THEN Throw(e1, NoSuchTableError)
  ELSE IF ForeignKeysOn(e1) /\ ParentMissing(e1, ins)
  THEN Throw(e1, ForeignKeyError)
  ELSE [e1 EXCEPT !.rows[ins.table] =
          Append(SelectSeq(@, LAMBDA r : r.key # ins.key),
                 [key |-> ins.key, at |-> IF ins.stamped THEN now ELSE 0])]

\* mutant: after a failed insert the remaining inserts are still attempted
\* and the first error is thrown at the end
RECURSIVE LoadFixturesFromContinue(_, _, _, _)
LoadFixturesFromContinue(i, e, fail, now) ==
  IF i > Len(FixtureInserts) THEN e
  ELSE LET e1 == InsertOrReplace([e EXCEPT !.error = NoError],
                                 FixtureInserts[i], fail, now) IN
       LoadFixturesFromContinue(i + 1,
         IF Failed(e) THEN [e1 EXCEPT !.error = e.error] ELSE e1, fail, now)

\* the try block of loadFixtures: the first insert that throws ends it, and
\* the catch block rethrows the error it caught
RECURSIVE LoadFixturesFrom(_, _, _, _)
LoadFixturesFrom(i, e, fail, now) ==
  IF i > Len(FixtureInserts) \/ Failed(e) THEN e
  ELSE LoadFixturesFrom(i + 1, InsertOrReplace(e, FixtureInserts[i], fail, now),
                        fail, now)

\* mutant: a failed load drops the connection handle
LoadFixturesResultDropsHandle(e, fail, now) ==
  IF e.db = NULL THEN Throw(e, ConnectionUnavailableMsg)
  ELSE LET e1 == LoadFixturesFrom(1, e, fail, now) IN
       IF Failed(e1) THEN [e1 EXCEPT !.db = NULL] ELSE e1

\* loadFixtures()
LoadFixturesResult(e, fail, now) ==
  IF e.db = NULL THEN Throw(e, ConnectionUnavailableMsg)
  ELSE LoadFixturesFrom(1, e, fail, now)

\* mutant: a new manager is constructed on every call
InstanceMissingAlways(i) == TRUE

\* if (!DatabaseManager.instance)
InstanceMissing(i) == ~i

\* ------------------------------------------------- question content (JSON)
\* a JSON value: its type, its text (a string, or the key of a member) and
\* its items (the elements of an array, the members of an object in
\* insertion order, the value of a member)
JStr(str) == [t |-> "string", s |-> str, items |-> <<>>]

JBool(b) == [t |-> IF b THEN "true" ELSE "false", s |-> "", items |-> <<>>]

JArr(elements) == [t |-> "array", s |-> "", items |-> elements]

JObj(members) == [t |-> "object", s |-> "", items |-> members]

Member(key, value) == [t |-> "member", s |-> key, items |-> <<value>>]

JNull == [t |-> "null", s |-> "", items |-> <<>>]

\* {id: ..., text: ..., isCorrect: ...}
Choice(id, text, isCorrect) ==
  JObj(<<Member("id", JStr(id)), Member("text", JStr(text)),
         Member("isCorrect", JBool(isCorrect))>>)

\* the object literal loadFixtures hands to JSON.stringify
QuestionContent ==
  JObj(<<Member("stem",
                JStr("Which activity is part of Business Analysis Planning?")),
         Member("choices",
                JArr(<<Choice("A", "Define stakeholder roles and responsibilities", TRUE),
                       Choice("B", "Elicit requirements from stakeholders", FALSE),
                       Choice("C", "Test the final solution", FALSE),
                       Choice("D", "Implement approved changes", FALSE)>>)),
         Member("correct", JArr(<<JStr("A")>>)),
         Member("shuffleChoices", JBool(TRUE))>>)

\* the object the test expects JSON.parse to return
ExpectedQuestionContent ==
  JObj(<<Member("stem",
                JStr("Which activity is part of Business Analysis Planning?")),
         Member("choices",
                JArr(<<JObj(<<Member("id", JStr("A")),
                              Member("text", JStr("Define stakeholder roles and responsibilities")),
                              Member("isCorrect", JBool(TRUE))>>),
                       JObj(<<Member("id", JStr("B")),
                              Member("text", JStr("Elicit requirements from stakeholders")),
                              Member("isCorrect", JBool(FALSE))>>),
                       JObj(<<Member("id", JStr("C")),
                              Member("text", JStr("Test the final solution")),
                              Member("isCorrect", JBool(FALSE))>>),
                       JObj(<<Member("id", JStr("D")),
                              Member("text", JStr("Implement approved changes")),
                              Member("isCorrect", JBool(FALSE))>>)>>)),
         Member("correct", JArr(<<JStr("A")>>)),
         Member("shuffleChoices", JBool(TRUE))>>)

\* question contents of the fixture's shape: which choices are marked, the
\* ids listed as correct, the shuffle flag
ContentOf(marked, correct, shuffle) ==
  JObj(<<Member("stem",
                JStr("Which activity is part of Business Analysis Planning?")),
         Member("choices",
                JArr(<<Choice("A", "Define stakeholder roles and responsibilities", marked[1]),
                       Choice("B", "Elicit requirements from stakeholders", marked[2]),
                       Choice("C", "Test the final solution", marked[3]),
                       Choice("D", "Implement approved changes", marked[4])>>)),
         Member("correct", JArr([i \in 1..Len(correct) |-> JStr(correct[i])])),
         Member("shuffleChoices", JBool(shuffle))>>)

\* the objects serialized: the fixture's content and its variations
JsonInputs ==
  {QuestionContent} \cup
  {ContentOf(marked, correct, shuffle) :
     marked \in [1..4 -> BOOLEAN],
     correct \in {<<>>, <<"A">>, <<"B">>, <<"A", "B">>},
     shuffle \in BOOLEAN}

\* a token of JSON text: punctuation, a literal name or a quoted string
Tok(kind, str) == [k |-> kind, s |-> str]

\* mutant: the serializer leaves out the members whose value is false
RECURSIVE StringifySkipsFalse(_)
StringifySkipsFalse(v) ==
  CASE v.t = "string" -> <<Tok("string", v.s)>>
    [] v.t \in {"true", "false"} -> <<Tok(v.t, "")>>
    [] v.t = "member" ->
         <<Tok("string", v.s), Tok(":", "")>> \o StringifySkipsFalse(v.items[1])
    [] v.t = "array" ->
         <<Tok("[", "")>> \o
         (LET RECURSIVE Elements(_)
              Elements(i) ==
                IF i > Len(v.items) THEN <<>>
                ELSE (IF i > 1 THEN <<Tok(",", "")>> ELSE <<>>)
                       \o StringifySkipsFalse(v.items[i]) \o Elements(i + 1)
          IN Elements(1))
         \o <<Tok("]", "")>>
    [] v.t = "object" ->
         <<Tok("{", "")>> \o
         (LET kept == SelectSeq(v.items, LAMBDA m : m.items[1].t # "false")
              RECURSIVE Members(_)
              Members(i) ==
                IF i > Len(kept) THEN <<>>
                ELSE (IF i > 1 THEN <<Tok(",", "")>> ELSE <<>>)
                       \o StringifySkipsFalse(kept[i]) \o Members(i + 1)
          IN Members(1))
         \o <<Tok("}", "")>>

\* JSON.stringify(value): the tokens of the text, members in insertion order
RECURSIVE Stringify(_)
Stringify(v) ==
  CASE v.t = "string" -> <<Tok("string", v.s)>>
    [] v.t \in {"true", "false"} -> <<Tok(v.t, "")>>
    [] v.t = "member" ->
         <<Tok("string", v.s), Tok(":", "")>> \o Stringify(v.items[1])
    [] v.t = "array" ->
         <<Tok("[", "")>> \o
         (LET RECURSIVE Elements(_)
              Elements(i) ==
                IF i > Len(v.items) THEN <<>>
                ELSE (IF i > 1 THEN <<Tok(",", "")>> ELSE <<>>)
                       \o Stringify(v.items[i]) \o Elements(i + 1)
          IN Elements(1))
         \o <<Tok("]", "")>>
    [] v.t = "object" ->
         <<Tok("{", "")>> \o
         (LET RECURSIVE Members(_)
              Members(i) ==
                IF i > Len(v.items) THEN <<>>
                ELSE (IF i > 1 THEN <<Tok(",", "")>> ELSE <<>>)
                       \o Stringify(v.items[i]) \o Members(i + 1)
          IN Members(1))
         \o <<Tok("}", "")>>

\* JSON.parse(text): recursive descent over the tokens; each operator yields
\* the value read and the tokens that follow it
RECURSIVE ParseValue(_)
RECURSIVE ParseElements(_, _)
RECURSIVE ParseMembers(_, _)

ParseValue(ts) ==
  LET h == Head(ts) IN
  CASE h.k = "string" -> [v |-> JStr(h.s), rest |-> Tail(ts)]
    [] h.k = "true" -> [v |-> JBool(TRUE), rest |-> Tail(ts)]
    [] h.k = "false" -> [v |-> JBool(FALSE), rest |-> Tail(ts)]
    [] h.k = "[" ->
         IF Head(Tail(ts)).k = "]"
         THEN [v |-> JArr(<<>>), rest |-> Tail(Tail(ts))]
         ELSE ParseElements(Tail(ts), <<>>)
    [] h.k = "{" ->
         IF Head(Tail(ts)).k = "}"
         THEN [v |-> JObj(<<>>), rest |-> Tail(Tail(ts))]
         ELSE ParseMembers(Tail(ts), <<>>)

ParseElements(ts, acc) ==
  LET r == ParseValue(ts)
      acc1 == Append(acc, r.v) IN
  IF Head(r.rest).k = ","
  THEN ParseElements(Tail(r.rest), acc1)
  ELSE [v |-> JArr(acc1), rest |-> Tail(r.rest)]

ParseMembers(ts, acc) ==
  LET r == ParseValue(Tail(Tail(ts)))
      key == Head(ts).s
      acc1 == IF \E i \in 1..Len(acc) : acc[i].s = key
              THEN [i \in 1..Len(acc) |->
                      IF acc[i].s = key THEN Member(key, r.v) ELSE acc[i]]
              ELSE Append(acc, Member(key, r.v)) IN
  IF Head(r.rest).k = ","
  THEN ParseMembers(Tail(r.rest), acc1)
  ELSE [v |-> JObj(acc1), rest |-> Tail(r.rest)]

\* JSON.parse(text)
Parse(ts) == ParseValue(ts).v

JsonIdle ==
  /\ jsonIn = JNull
  /\ jsonText = <<>>
  /\ jsonOut = JNull
  /\ jsonPc = "idle"

\* ------------------------------------------- foreign keys of the schema
\* the tables of 001_initial that reference questions, exhibits and attempts,
\* and the tables they reference
ParentTables == {"questions", "exhibits", "attempts"}

ChildTables == {"question_exhibits", "attempt_items"}

\* mutant: the ON DELETE CASCADE clauses are missing
SchemaForeignKeysNoCascade ==
  {[child |-> "question_exhibits", column |-> "question_id",
    parent |-> "questions", onDelete |-> "NO ACTION"],
   [child |-> "question_exhibits", column |-> "exhibit_id",
    parent |-> "exhibits", onDelete |-> "NO ACTION"],
   [child |-> "attempt_items", column |-> "attempt_id",
    parent |-> "attempts", onDelete |-> "NO ACTION"],
   [child |-> "attempt_items", column |-> "question_id",
    parent |-> "questions", onDelete |-> "NO ACTION"]}

\* the FOREIGN KEY clauses of question_exhibits and attempt_items
SchemaForeignKeys ==
  {[child |-> "question_exhibits", column |-> "question_id",
    parent |-> "questions", onDelete |-> "CASCADE"],
   [child |-> "question_exhibits", column |-> "exhibit_id",
    parent |-> "exhibits", onDelete |-> "CASCADE"],
   [child |-> "attempt_items", column |-> "attempt_id",
    parent |-> "attempts", onDelete |-> "CASCADE"],
   [child |-> "attempt_items", column |-> "question_id",
    parent |-> "questions", onDelete |-> "NO ACTION"]}

\* the primary keys a caller uses
QuestionIds == {"q1", "q2"}
ExhibitIds == {"x1"}
AttemptIds == {"a1"}

\* the rows a caller can write to a table, as their key columns
CandidateRows(table) ==
  CASE table = "questions" -> {[id |-> q] : q \in QuestionIds}
    [] table = "exhibits" -> {[id |-> x] : x \in ExhibitIds}
    [] table = "attempts" -> {[id |-> a] : a \in AttemptIds}
    [] table = "question_exhibits" ->
         {[question_id |-> q, exhibit_id |-> x] :
            q \in QuestionIds, x \in ExhibitIds}
    [] table = "attempt_items" ->
         {[attempt_id |-> a, question_id |-> q] :
            a \in AttemptIds, q \in QuestionIds}

UniqueError == "UNIQUE constraint failed"

\* the rows of the child table of a foreign key that reference the parent id
Referencing(rows, fk, id) == {r \in rows[fk.child] : r[fk.column] = id}

\* a row of the table has a foreign key whose parent row is missing
MissingParent(rows, table, row) ==
  \E fk \in SchemaForeignKeys :
    /\ fk.child = table
    /\ [id |-> row[fk.column]] \notin rows[fk.parent]

\* INSERT INTO table: the primary key is unique and, with enforcement on,
\* every referenced row exists
InsertRowResult(rows, table, row, enforced) ==
  IF row \in rows[table]
  THEN [rows |-> rows, error |-> UniqueError]
  ELSE IF enforced /\ MissingParent(rows, table, row)
  THEN [rows |-> rows, error |-> ForeignKeyError]
  ELSE [rows |-> [rows EXCEPT ![table] = @ \cup {row}], error |-> NoError]

\* DELETE FROM table WHERE the key is the row's: with enforcement on, the
\* rows that reference it through an ON DELETE CASCADE key are deleted too,
\* and the statement fails when a row still references it at its end
DeleteRowResult(rows, table, row, enforced) ==
  IF row \notin rows[table] \/ table \in ChildTables \/ ~enforced
  THEN [rows |-> [rows EXCEPT ![table] = @ \ {row}], error |-> NoError]
  ELSE
    LET cascaded ==
          [t \in DOMAIN rows |->
             IF t = table THEN rows[t] \ {row}
             ELSE rows[t] \ UNION {Referencing(rows, fk, row.id) :
                                     fk \in {f \in SchemaForeignKeys :
                                               /\ f.parent = table
                                               /\ f.child = t
                                               /\ f.onDelete = "CASCADE"}}] IN
    IF \E fk \in SchemaForeignKeys :
         /\ fk.parent = table
         /\ Referencing(cascaded, fk, row.id) # {}
    THEN [rows |-> rows, error |-> ForeignKeyError]
    ELSE [rows |-> cascaded, error |-> NoError]

\* the number of rows in the five tables
RowCount(rows) ==
  Cardinality(UNION {{<<t, r>> : r \in rows[t]} : t \in DOMAIN rows})

NoStatement ==
  [op |-> "none", table |-> "", row |-> <<>>, error |-> NoError, removed |-> 0]

SchemaIdle ==
  /\ foreignKeysEnabled = FALSE
  /\ storeRows = [t \in ParentTables \cup ChildTables |-> {}]
  /\ storeLast = NoStatement

\* ------------------------------------------------------- Button and Card
\* presses of an enabled component in one run
MaxPresses == 2

\* touchTarget.minimum of the design tokens
TouchTargetMinimum == 44

\* the theme useTheme() returns: the tokens are the same in both schemes
Theme(scheme) ==
  [touchTarget |-> [minimum |-> TouchTargetMinimum],
   spacing |-> [m |-> 12, l |-> 16, xl |-> 24]]

Max(a, b) == IF a >= b THEN a ELSE b

\* const isDisabled = disabled || loading
IsDisabled(disabled, loading) == disabled \/ loading

\* mutant: the heights are taken as they are, without Math.max
SizeConfigUnclamped(theme) ==
  [small |-> [height |-> 36, paddingHorizontal |-> theme.spacing.m,
              minWidth |-> theme.touchTarget.minimum],
   medium |-> [height |-> 48, paddingHorizontal |-> theme.spacing.l,
               minWidth |-> theme.touchTarget.minimum],
   large |-> [height |-> 56, paddingHorizontal |-> theme.spacing.xl,
              minWidth |-> theme.touchTarget.minimum]]

\* sizeConfig
SizeConfig(theme) ==
  [small |-> [height |-> Max(theme.touchTarget.minimum, 36),
              paddingHorizontal |-> theme.spacing.m,
              minWidth |-> theme.touchTarget.minimum],
   medium |-> [height |-> Max(theme.touchTarget.minimum, 48),
               paddingHorizontal |-> theme.spacing.l,
               minWidth |-> theme.touchTarget.minimum],
   large |-> [height |-> Max(theme.touchTarget.minimum, 56),
              paddingHorizontal |-> theme.spacing.xl,
              minWidth |-> theme.touchTarget.minimum]]

\* baseStyle of getVariantStyles: the same size entries for every variant
BaseStyle(props, theme) ==
  LET currentSize == SizeConfig(theme)[props.size] IN
  [height |-> currentSize.height,
   paddingHorizontal |-> currentSize.paddingHorizontal,
   minWidth |-> currentSize.minWidth]

\* buttonStyles.container
ButtonStylesContainer == [alignItems |-> "center", flexDirection |-> "row"]

\* a style array flattened: an entry overrides the keys of the entries
\* before it
Flatten2(a, b) ==
  [key \in DOMAIN a \cup DOMAIN b |-> IF key \in DOMAIN b THEN b[key] ELSE a[key]]

\* the style prop of a caller: none, a margin, or a compact size
NoStyle == <<>>

StyleProps == {NoStyle, [marginTop |-> 8], [height |-> 32, minWidth |-> 32]}

\* style={[buttonStyles.container, styles.container, style]}
ButtonStyle(props, theme) ==
  Flatten2(Flatten2(ButtonStylesContainer, BaseStyle(props, theme)), props.style)

\* mutant: the handler is passed to the Pressable whatever the state
PressableOnPressAlways(props) == props.onPress

\* onPress={isDisabled ? undefined : onPress}
PressableOnPress(props) ==
  IF IsDisabled(props.disabled, props.loading) THEN "undefined"
  ELSE props.onPress

\* mutant: press-in sets the flag whatever the state
OnPressInUnguarded(props, pressed) == TRUE

\* onPressIn={() => !isDisabled && setIsPressed(true)}
OnPressIn(props, pressed) ==
  IF ~IsDisabled(props.disabled, props.loading) THEN TRUE ELSE pressed

\* onPressOut={() => setIsPressed(false)}
OnPressOut(props, pressed) == FALSE

\* the Pressable the Button renders
RenderedButton(props, theme) ==
  [type |-> "Pressable",
   style |-> ButtonStyle(props, theme),
   onPress |-> PressableOnPress(props),
   disabled |-> IsDisabled(props.disabled, props.loading),
   accessibilityRole |-> "button",
   accessibilityState |->
     [disabled |-> IsDisabled(props.disabled, props.loading),
      busy |-> props.loading]]

\* the props a caller passes to a Button
ButtonPropsSet ==
  [variant : {"primary", "secondary", "tertiary", "destructive"},
   size : {"small", "medium", "large"},
   disabled : BOOLEAN,
   loading : BOOLEAN,
   onPress : {"undefined", "handler"},
   style : StyleProps]

\* mutant: every Card is rendered as a Pressable
RenderedCardAlwaysPressable(props) ==
  [type |-> "Pressable", onPress |-> props.onPress,
   accessibilityRole |-> "button"]

\* the element the Card renders: a View, or a Pressable when interactive
RenderedCard(props) ==
  LET interactive ==
        IF props.interactive = "undefined" THEN FALSE
        ELSE props.interactive = "true" IN
  IF ~interactive
  THEN [type |-> "View", onPress |-> "undefined",
        accessibilityRole |-> "undefined"]
  ELSE [type |-> "Pressable", onPress |-> props.onPress,
        accessibilityRole |-> "button"]

\* the props a caller passes to a Card
CardPropsSet ==
  [interactive : {"undefined", "false", "true"},
   onPress : {"undefined", "handler"},
   elevation : {"rest", "pressed"}]

NoButtonProps ==
  [variant |-> "primary", size |-> "medium", disabled |-> FALSE,
   loading |-> FALSE, onPress |-> "undefined", style |-> NoStyle]

NoCardProps ==
  [interactive |-> "undefined", onPress |-> "undefined", elevation |-> "rest"]

UiEvent(event, invoked) == [event |-> event, invoked |-> invoked]

UiIdle ==
  /\ mounted = "none"
  /\ colorScheme = "light"
  /\ buttonProps = NoButtonProps
  /\ isPressed = FALSE
  /\ everEnabled = FALSE
  /\ cardProps = NoCardProps
  /\ cardIsPressed = FALSE
  /\ onPressCalls = 0
  /\ uiLast = UiEvent("none", FALSE)

\* -------------------------------------------- concurrent initialize calls
\* callers that invoke initialize before any of them has returned
MaxCallers == 2

Callers == 1..MaxCallers

\* mutant: a call does not look at the handle before it opens the store
InitializeEnterUnchecked(e, fail, k, now) ==
  LET e1 == OpenStore(e, fail) IN
  IF Failed(e1) THEN [e |-> e1, at |-> "done"]
  ELSE
    LET e2 == EnableForeignKeys(e1, fail) IN
    IF Failed(e2) THEN [e |-> e2, at |-> "done"]
    ELSE
      LET e3 == CreateTrackingTable(e2, fail) IN
      IF Failed(e3) \/ MigrationList = <<>>
      THEN [e |-> e3, at |-> "awaitRunMigrations"]
      ELSE [e |-> RunMigration(e3, MigrationList[1], fail, k, now),
            at |-> "awaitRunMigration"]

\* initialize() from its call to its first suspension.  The body of an async
\* function runs without interruption up to an await: the early return, or
\* open and the pragma (a throw rejects the promise at once), then the body
\* of runMigrations up to its await of runMigration(version, migration), whose
\* body has no await.  The result is the execution and the place the call
\* stands at: "done", "awaitRunMigration" (runMigrations is suspended in its
\* loop) or "awaitRunMigrations" (only initialize is suspended)
InitializeEnter(e, fail, k, now) ==
  IF AlreadyInitialized(e.db) THEN [e |-> e, at |-> "done"]
  ELSE
    LET e1 == OpenStore(e, fail) IN
    IF Failed(e1) THEN [e |-> e1, at |-> "done"]
    ELSE
      LET e2 == EnableForeignKeys(e1, fail) IN
      IF Failed(e2) THEN [e |-> e2, at |-> "done"]
      ELSE
        LET e3 == CreateTrackingTable(e2, fail) IN
        IF Failed(e3) \/ MigrationList = <<>>
        THEN [e |-> e3, at |-> "awaitRunMigrations"]
        ELSE [e |-> RunMigration(e3, MigrationList[1], fail, k, now),
              at |-> "awaitRunMigration"]

\* the state a concurrent call starts on: the log is the log of all calls
CallerStart == [Start EXCEPT !.log = log]

CallersIdle ==
  /\ pc = <<>>
  /\ callerError = <<>>
  /\ callerLog = <<>>

\* ---------------------------------------------------------------- actions
ManagerInit ==
  /\ instance = FALSE
  /\ db = NULL
  /\ conns = <<>>
  /\ tables = {}
  /\ migrations = <<>>
  /\ clock = 0
  /\ log = <<>>
  /\ last = Returned("none")
  /\ initCalled = FALSE
  /\ initOk = FALSE
  /\ constructed = 0
  /\ tableRows = [t \in FixtureTables |-> <<>>]

Init ==
  /\ ManagerInit
  /\ JsonIdle
  /\ SchemaIdle
  /\ UiIdle
  /\ CallersIdle

\* DatabaseManager.getInstance()
GetInstance ==
  /\ constructed' = IF InstanceMissing(instance) THEN constructed + 1
                     ELSE constructed
  /\ instance' = TRUE
  /\ log' = <<>>
  /\ last' = [Returned("getInstance") EXCEPT !.object = constructed']
  /\ UNCHANGED <<db, conns, tables, migrations, clock, initCalled, initOk,
                 tableRows>>
  /\ UNCHANGED <<others, callerVars>>

\* await manager.initialize()
Initialize ==
  /\ instance
  /\ \E fail \in FailPoints \ {"catalog"} :
     \E k \in IF fail = "batch" THEN FailedBatchPrefixes ELSE {0} :
       LET e == InitializeResult(Start, fail, k, clock) IN
       /\ Len(e.conns) <= MaxOpens
       /\ db' = e.db
       /\ conns' = e.conns
       /\ tables' = e.tables
       /\ migrations' = e.migrations
       /\ log' = e.log
       /\ last' = Outcome("initialize", e)
       /\ initOk' = (initOk \/ ~Failed(e))
  /\ initCalled' = TRUE
  /\ UNCHANGED <<instance, clock, constructed, tableRows>>
  /\ UNCHANGED <<others, callerVars>>

\* manager.getConnection()
GetConnection ==
  /\ instance
  /\ last' = GetConnectionResult(db)
  /\ log' = <<>>
  /\ UNCHANGED <<instance, db, conns, tables, migrations, clock, initCalled,
                 initOk, constructed, tableRows>>
  /\ UNCHANGED <<others, callerVars>>

\* await manager.close()
Close ==
  /\ instance
  /\ LET e == CloseResult(Start) IN
       /\ db' = e.db
       /\ conns' = e.conns
       /\ log' = e.log
       /\ last' = Outcome("close", e)
  /\ initOk' = FALSE
  /\ UNCHANGED <<instance, tables, migrations, clock, initCalled, constructed,
                 tableRows>>
  /\ UNCHANGED <<others, callerVars>>

\* manager.tableExists(tableName)
TableExists ==
  /\ instance
  /\ \E tableName \in QueriedNames, fail \in {"none", "catalog"} :
       IF db = NULL
       THEN /\ last' = [Threw("tableExists", ConnectionUnavailableMsg)
                          EXCEPT !.arg = tableName]
            /\ log' = <<>>
       ELSE /\ log' = <<"catalog">>
            /\ last' = IF fail = "catalog"
                       THEN [Threw("tableExists", StoreError)
                               EXCEPT !.arg = tableName]
                       ELSE [Returned("tableExists")
                               EXCEPT !.arg = tableName,
                                      !.exists =
                                        TableExistsValue(tables, tableName)]
  /\ UNCHANGED <<instance, db, conns, tables, migrations, clock, initCalled,
                 initOk, constructed, tableRows>>
  /\ UNCHANGED <<others, callerVars>>

\* manager.getAllTables()
GetAllTables ==
  /\ instance
  /\ \E fail \in {"none", "catalog"} :
       IF db = NULL
       THEN /\ last' = Threw("getAllTables", ConnectionUnavailableMsg)
            /\ log' = <<>>
       ELSE /\ log' = <<"catalog">>
            /\ last' = IF fail = "catalog"
                       THEN Threw("getAllTables", StoreError)
                       ELSE [Returned("getAllTables")
                               EXCEPT !.names =
                                        RowNames(CatalogRows(tables))]
  /\ UNCHANGED <<instance, db, conns, tables, migrations, clock, initCalled,
                 initOk, constructed, tableRows>>
  /\ UNCHANGED <<others, callerVars>>

\* await manager.loadFixtures()
LoadFixtures ==
  /\ instance
  /\ \E fail \in FixtureFailPoints :
       LET e == LoadFixturesResult(Start, fail, clock) IN
       /\ db' = e.db
       /\ tableRows' = e.rows
       /\ log' = e.log
       /\ last' = Outcome("loadFixtures", e)
  /\ UNCHANGED <<instance, conns, tables, migrations, clock, initCalled,
                 initOk, constructed>>
  /\ UNCHANGED <<others, callerVars>>

\* a collaborator runs ANALYZE on the connection getConnection returned
Analyze ==
  /\ instance
  /\ db # NULL
  /\ tables # {}
  /\ tables' = tables \cup {InternalTable}
  /\ UNCHANGED <<instance, db, conns, migrations, clock, log, last,
                 initCalled, initOk, constructed, tableRows>>
  /\ UNCHANGED <<others, callerVars>>

\* time passes between two calls
Tick ==
  /\ clock < MaxClock
  /\ clock' = clock + 1
  /\ UNCHANGED <<instance, db, conns, tables, migrations, log, last,
                 initCalled, initOk, constructed, tableRows>>
  /\ UNCHANGED <<others, callerVars>>

Next ==
  \/ GetInstance
  \/ Initialize
  \/ GetConnection
  \/ Close
  \/ TableExists
  \/ GetAllTables
  \/ LoadFixtures
  \/ Analyze
  \/ Tick

Spec == Init /\ [][Next]_vars

\* ----------------------------------------- the serialized question content
JsonInit ==
  /\ ManagerInit
  /\ jsonIn \in JsonInputs
  /\ jsonText = <<>>
  /\ jsonOut = JNull
  /\ jsonPc = "built"
  /\ SchemaIdle
  /\ UiIdle
  /\ CallersIdle

\* const questionContent = JSON.stringify({...})
StringifyContent ==
  /\ jsonPc = "built"
  /\ jsonText' = Stringify(jsonIn)
  /\ jsonPc' = "serialized"
  /\ UNCHANGED <<managerVars, jsonIn, jsonOut, schemaVars, uiVars, callerVars>>

\* JSON.parse(questionCall[1][5]): the sixth parameter of the insert
ParseContent ==
  /\ jsonPc = "serialized"
  /\ jsonOut' = Parse(jsonText)
  /\ jsonPc' = "parsed"
  /\ UNCHANGED <<managerVars, jsonIn, jsonText, schemaVars, uiVars, callerVars>>

JsonNext ==
  \/ StringifyContent
  \/ ParseContent

JsonSpec == JsonInit /\ [][JsonNext]_vars

\* ------------------------------------------------ statements on the schema
\* a connection on a migrated store; the pragma of initialize took effect on
\* it, or it did not
SchemaInit ==
  /\ ManagerInit
  /\ JsonIdle
  /\ foreignKeysEnabled \in BOOLEAN
  /\ storeRows = [t \in ParentTables \cup ChildTables |-> {}]
  /\ storeLast = NoStatement
  /\ UiIdle
  /\ CallersIdle

\* connection.execute('INSERT INTO ...')
InsertRow ==
  /\ \E table \in ParentTables \cup ChildTables :
     \E row \in CandidateRows(table) :
       LET r == InsertRowResult(storeRows, table, row, foreignKeysEnabled) IN
       /\ storeRows' = r.rows
       /\ storeLast' = [op |-> "insert", table |-> table, row |-> row,
                        error |-> r.error, removed |-> 0]
  /\ UNCHANGED <<managerVars, jsonVars, foreignKeysEnabled, uiVars,
                 callerVars>>

\* connection.execute('DELETE FROM ...')
DeleteRow ==
  /\ \E table \in ParentTables \cup ChildTables :
     \E row \in CandidateRows(table) :
       LET r == DeleteRowResult(storeRows, table, row, foreignKeysEnabled) IN
       /\ storeRows' = r.rows
       /\ storeLast' = [op |-> "delete", table |-> table, row |-> row,
                        error |-> r.error,
                        removed |-> RowCount(storeRows) - RowCount(r.rows)]
  /\ UNCHANGED <<managerVars, jsonVars, foreignKeysEnabled, uiVars,
                 callerVars>>

SchemaNext ==
  \/ InsertRow
  \/ DeleteRow

SchemaSpec == SchemaInit /\ [][SchemaNext]_vars

\* -------------------------------------------------- the Button and the Card
\* render(<ThemeProvider><Button .../></ThemeProvider>), or the same of a Card
UiInit ==
  /\ ManagerInit
  /\ JsonIdle
  /\ SchemaIdle
  /\ CallersIdle
  /\ colorScheme \in {"light", "dark"}
  /\ isPressed = FALSE
  /\ cardIsPressed = FALSE
  /\ onPressCalls = 0
  /\ uiLast = UiEvent("render", FALSE)
  /\ \/ /\ mounted = "button"
        /\ buttonProps \in ButtonPropsSet
        /\ cardProps = NoCardProps
     \/ /\ mounted = "card"
        /\ cardProps \in CardPropsSet
        /\ buttonProps = NoButtonProps
  /\ everEnabled = (mounted = "button"
                    /\ ~IsDisabled(buttonProps.disabled, buttonProps.loading))

\* a press on the Button: the Pressable calls the handler it was given
ButtonPress ==
  /\ mounted = "button"
  /\ onPressCalls < MaxPresses
  /\ LET handler == RenderedButton(buttonProps, Theme(colorScheme)).onPress IN
     /\ onPressCalls' = IF handler # "undefined" THEN onPressCalls + 1
                        ELSE onPressCalls
     /\ uiLast' = UiEvent("press", handler # "undefined")
  /\ UNCHANGED <<managerVars, jsonVars, schemaVars, callerVars, mounted,
                 colorScheme,
                 buttonProps, isPressed, everEnabled, cardProps,
                 cardIsPressed>>

\* a press-in event on the Button
ButtonPressIn ==
  /\ mounted = "button"
  /\ isPressed' = OnPressIn(buttonProps, isPressed)
  /\ uiLast' = UiEvent("pressIn", FALSE)
  /\ UNCHANGED <<managerVars, jsonVars, schemaVars, callerVars, mounted,
                 colorScheme,
                 buttonProps, everEnabled, cardProps, cardIsPressed,
                 onPressCalls>>

\* a press-out event on the Button
ButtonPressOut ==
  /\ mounted = "button"
  /\ isPressed' = OnPressOut(buttonProps, isPressed)
  /\ uiLast' = UiEvent("pressOut", FALSE)
  /\ UNCHANGED <<managerVars, jsonVars, schemaVars, callerVars, mounted,
                 colorScheme,
                 buttonProps, everEnabled, cardProps, cardIsPressed,
                 onPressCalls>>

\* the parent renders the Button again with other disabled and loading props
ButtonRerender ==
  /\ mounted = "button"
  /\ \E disabled \in BOOLEAN, loading \in BOOLEAN :
       /\ buttonProps' = [buttonProps EXCEPT !.disabled = disabled,
                                             !.loading = loading]
       /\ everEnabled' = (everEnabled \/ ~IsDisabled(disabled, loading))
  /\ uiLast' = UiEvent("render", FALSE)
  /\ UNCHANGED <<managerVars, jsonVars, schemaVars, callerVars, mounted,
                 colorScheme,
                 isPressed, cardProps, cardIsPressed, onPressCalls>>

\* a press on the Card: a Pressable calls the handler it was given, a View
\* has none
CardPress ==
  /\ mounted = "card"
  /\ onPressCalls < MaxPresses
  /\ LET card == RenderedCard(cardProps)
         invoked == card.type = "Pressable" /\ card.onPress # "undefined" IN
     /\ onPressCalls' = IF invoked THEN onPressCalls + 1 ELSE onPressCalls
     /\ uiLast' = UiEvent("press", invoked)
  /\ UNCHANGED <<managerVars, jsonVars, schemaVars, callerVars, mounted,
                 colorScheme,
                 buttonProps, isPressed, everEnabled, cardProps,
                 cardIsPressed>>

\* onPressIn={() => setIsPressed(true)} of the interactive Card
CardPressIn ==
  /\ mounted = "card"
  /\ RenderedCard(cardProps).type = "Pressable"
  /\ cardIsPressed' = TRUE
  /\ uiLast' = UiEvent("pressIn", FALSE)
  /\ UNCHANGED <<managerVars, jsonVars, schemaVars, callerVars, mounted,
                 colorScheme,
                 buttonProps, isPressed, everEnabled, cardProps,
                 onPressCalls>>

\* onPressOut={() => setIsPressed(false)} of the interactive Card
CardPressOut ==
  /\ mounted = "card"
  /\ RenderedCard(cardProps).type = "Pressable"
  /\ cardIsPressed' = FALSE
  /\ uiLast' = UiEvent("pressOut", FALSE)
  /\ UNCHANGED <<managerVars, jsonVars, schemaVars, callerVars, mounted,
                 colorScheme,
                 buttonProps, isPressed, everEnabled, cardProps,
                 onPressCalls>>

UiNext ==
  \/ ButtonPress
  \/ ButtonPressIn
  \/ ButtonPressOut
  \/ ButtonRerender
  \/ CardPress
  \/ CardPressIn
  \/ CardPressOut

UiSpec == UiInit /\ [][UiNext]_vars

\* ------------------------------------- initialize called by several callers
\* the singleton exists, no connection exists; the store is new or was
\* migrated in an earlier run of the application
CallersInit ==
  /\ JsonIdle
  /\ SchemaIdle
  /\ UiIdle
  /\ instance = TRUE
  /\ constructed = 1
  /\ db = NULL
  /\ conns = <<>>
  /\ \/ /\ tables = {}
        /\ migrations = <<>>
     \/ /\ tables = Range(Migration001Tables) \cup {TrackingTable}
        /\ migrations = <<[version |-> "001_initial", applied_at |-> 0]>>
  /\ clock = 0
  /\ log = <<>>
  /\ last = Returned("getInstance")
  /\ initCalled = FALSE
  /\ initOk = FALSE
  /\ tableRows = [t \in FixtureTables |-> <<>>]
  /\ pc = [c \in Callers |-> "start"]
  /\ callerError = [c \in Callers |-> NoError]
  /\ callerLog = [c \in Callers |-> <<>>]

\* a caller calls manager.initialize(): the call runs to its first await
CallInitialize ==
  /\ \E c \in Callers :
       /\ pc[c] = "start"
       /\ \E fail \in FailPoints \ {"catalog"} :
          \E k \in IF fail = "batch" THEN FailedBatchPrefixes ELSE {0} :
            LET r == InitializeEnter(CallerStart, fail, k, clock) IN
            /\ db' = r.e.db
            /\ conns' = r.e.conns
            /\ tables' = r.e.tables
            /\ migrations' = r.e.migrations
            /\ log' = r.e.log
            /\ pc' = [pc EXCEPT ![c] = r.at]
            /\ callerError' = [callerError EXCEPT ![c] = r.e.error]
            /\ callerLog' = [callerLog EXCEPT ![c] =
                               SubSeq(r.e.log, Len(log) + 1, Len(r.e.log))]
  /\ initCalled' = TRUE
  /\ UNCHANGED <<instance, clock, last, initOk, constructed, tableRows, others>>

\* runMigrations resumes after await this.runMigration(...): a rejection ends
\* it, otherwise the loop goes on; the list has no second migration, so
\* runMigrations returns
ResumeRunMigrations ==
  /\ \E c \in Callers :
       /\ pc[c] = "awaitRunMigration"
       /\ pc' = [pc EXCEPT ![c] = "awaitRunMigrations"]
  /\ UNCHANGED <<managerVars, others, callerError, callerLog>>

\* initialize resumes after await this.runMigrations(): it returns, or its
\* catch block rethrows the error
ResumeInitialize ==
  /\ \E c \in Callers :
       /\ pc[c] = "awaitRunMigrations"
       /\ pc' = [pc EXCEPT ![c] = "done"]
  /\ UNCHANGED <<managerVars, others, callerError, callerLog>>

CallersNext ==
  \/ CallInitialize
  \/ ResumeRunMigrations
  \/ ResumeInitialize

CallersSpec == CallersInit /\ [][CallersNext]_vars

\* ------------------------------------------------------------- properties
HasTrackingRow(rows, version) == SelectVersion(rows, version) # <<>>

AllMigrationsRecorded ==
  \A i \in 1..Len(MigrationList) : HasTrackingRow(migrations, MigrationList[i])

LastOp(l) == IF l = <<>> THEN "" ELSE l[Len(l)]

\* the most recent call was an initialize that threw after open() succeeded
InitializeFailedAfterOpen ==
  /\ last.call = "initialize"
  /\ last.outcome = "throw"
  /\ Len(log) > 1

\* the most recent call was an initialize in which open() threw
InitializeFailedAtOpen ==
  /\ last.call = "initialize"
  /\ last.outcome = "throw"
  /\ log = <<"open">>

\* C1: an initialize call that follows an initialize that failed after the
\* store was opened is not treated as already initialized: it issues store
\* operations again and, when it returns, every version has its tracking row
C1_FailedInitializeIsRetried ==
  [][(InitializeFailedAfterOpen /\ last'.call = "initialize" /\ Initialize)
       => /\ log' # <<>>
          /\ last'.outcome = "return" =>
               \A i \in 1..Len(MigrationList) :
                 HasTrackingRow(migrations', MigrationList[i])]_vars

\* C2: whenever an initialize call has returned normally, a live connection
\* exists and every migration of the static list has a tracking row
C2_SuccessfulInitializeMigrated ==
  (last.call = "initialize" /\ last.outcome = "return")
    => /\ db # NULL
       /\ conns[db].closes = 0
       /\ AllMigrationsRecorded

\* C3: initialize called while a connection exists returns normally, issues
\* no store operation and leaves the handle and the store unchanged
C3_ReinitializeIsNoOp ==
  [][(db # NULL /\ last'.call = "initialize" /\ Initialize)
       => /\ log' = <<>>
          /\ last'.outcome = "return"
          /\ db' = db
          /\ conns' = conns
          /\ tables' = tables
          /\ migrations' = migrations]_vars

C3_Witness ==
  /\ last.call = "initialize"
  /\ last.outcome = "return"
  /\ log = <<>>
  /\ db # NULL
  /\ AllMigrationsRecorded

\* C4: when open() throws inside initialize the error reaches the caller and
\* the handle is null; getConnection then raises the not-initialized error
\* and the next initialize call calls open() again
C4_OpenFailureLeavesNull ==
  /\ [](InitializeFailedAtOpen => (db = NULL /\ last.error = StoreError))
  /\ [][(InitializeFailedAtOpen /\ last'.call = "getConnection"
          /\ GetConnection)
          => (last'.outcome = "throw" /\ last'.error = NotInitializedMsg)]_vars
  /\ [][(InitializeFailedAtOpen /\ last'.call = "initialize" /\ Initialize)
          => (log' # <<>> /\ Head(log') = "open")]_vars

C4_Witness ==
  /\ InitializeFailedAtOpen
  /\ db = NULL
  /\ conns = <<>>

\* C5: when the SQL batch of a migration throws, initialize throws that
\* error and the rows of the tracking table are the rows it had before
C5_FailedBatchNotRecorded ==
  [][(last'.call = "initialize" /\ last'.outcome = "throw"
      /\ LastOp(log') = "batch" /\ Initialize)
       => (last'.error = StoreError /\ migrations' = migrations)]_vars

C5_Witness ==
  /\ last.call = "initialize"
  /\ last.outcome = "throw"
  /\ LastOp(log) = "batch"
  /\ ~AllMigrationsRecorded
  /\ "exams" \in tables

\* C6: getConnection before any initialize call throws the fixed message,
\* and a handle getConnection returns is never null nor a released connection
C6_GetConnectionNeverNull ==
  last.call = "getConnection"
    => /\ ~initCalled =>
            (last.outcome = "throw" /\ last.error = NotInitializedMsg)
       /\ last.outcome = "return" =>
            /\ last.conn # NULL
            /\ last.conn \in 1..Len(conns)
            /\ conns[last.conn].closes = 0

C6_Witness ==
  /\ last.call = "getConnection"
  /\ ~initCalled
  /\ last.outcome = "throw"

\* C7: getConnection returns a connection exactly in the states where an
\* initialize call has returned normally and close was not called since
C7_ConnectionOnlyAfterSuccess ==
  last.call = "getConnection" => (last.outcome = "return" <=> initOk)

\* C8: tableExists and getAllTables called with no connection throw the
\* error getConnection throws, run no store operation and change no state
C8_SameNotInitializedError ==
  [][(db = NULL /\ last'.call \in {"tableExists", "getAllTables"}
      /\ (TableExists \/ GetAllTables))
       => /\ last'.outcome = "throw"
          /\ last'.error = GetConnectionResult(db).error
          /\ log' = <<>>
          /\ UNCHANGED <<db, conns, tables, migrations>>]_vars

\* C9: no connection is released more than once; close on a live handle
\* releases it once and clears the handle, close on a null handle does
\* nothing and returns normally
C9_ReleaseExactlyOnce ==
  /\ [](\A c \in 1..Len(conns) : conns[c].closes <= 1)
  /\ [][(last'.call = "close" /\ Close)
          => /\ last'.outcome = "return"
             /\ db' = NULL
             /\ IF db # NULL
                THEN /\ conns'[db].closes = conns[db].closes + 1
                     /\ Released' = Released + 1
                ELSE /\ conns' = conns
                     /\ log' = <<>>]_vars

\* a second close after a successful initialize and a first close
C9_Witness ==
  /\ last.call = "close"
  /\ log = <<>>
  /\ AllMigrationsRecorded
  /\ Opened = 1
  /\ Released = 1

\* C10: successful opens minus releases is 0 or 1, and it is 1 exactly when
\* the handle is non-null; the handle is then the one unreleased connection
C10_AtMostOneLiveConnection ==
  /\ Opened - Released \in {0, 1}
  /\ (Opened - Released = 1) <=> (db # NULL)
  /\ \A c \in 1..Len(conns) : (conns[c].closes = 0) <=> (c = db)

\* a second connection opened after the first was released
C10_Witness ==
  /\ db = 2
  /\ Opened = 2
  /\ Released = 1

\* C11: every getInstance call returns normally and returns the one manager
\* object ever constructed, the object the first call created
C11_SingleInstance ==
  /\ constructed <= 1
  /\ instance <=> (constructed = 1)
  /\ last.call = "getInstance" =>
       (last.outcome = "return" /\ last.object = 1)

\* a getInstance call made after the manager was already in use
C11_Witness ==
  /\ last.call = "getInstance"
  /\ initCalled
  /\ last.object = 1

\* the db.execute calls of a log
Executes(l) == SelectSeq(l, LAMBDA op : op \notin {"open", "close"})

IsPrefix(s, t) == Len(s) <= Len(t) /\ \A i \in 1..Len(s) : s[i] = t[i]

Count(l, op) == Len(SelectSeq(l, LAMBDA o : o = op))

\* C12: the tracking table never holds two rows for one version, and an
\* initialize call never executes the batch of a version that already has
\* its tracking row
C12_AppliedAtMostOnce ==
  /\ [](\A i \in 1..Len(MigrationList) :
          Len(SelectVersion(migrations, MigrationList[i])) <= 1)
  /\ [][(AllMigrationsRecorded /\ last'.call = "initialize" /\ Initialize)
          => (Count(log', "batch") = 0 /\ Count(log', "insert") = 0
              /\ migrations' = migrations)]_vars

\* a second connection was initialized on a store that is already migrated
C12_Witness ==
  /\ last.call = "initialize"
  /\ db = 2
  /\ "check" \in Range(log)
  /\ Len(migrations) = 1

\* C13: with the tracking row of 001_initial present and no connection,
\* initialize executes the pragma, the tracking-table creation and the
\* version check, in this order and nothing else (a prefix of them when one
\* of them throws): never the batch, never the tracking-row insert
C13_AppliedMigrationThreeStatements ==
  [][(db = NULL /\ HasTrackingRow(migrations, "001_initial")
      /\ last'.call = "initialize" /\ Initialize)
       => /\ IsPrefix(Executes(log'), <<"pragma", "createTracking", "check">>)
          /\ last'.outcome = "return" =>
               log' = <<"open", "pragma", "createTracking", "check">>
          /\ migrations' = migrations]_vars

C13_Witness ==
  /\ last.call = "initialize"
  /\ last.outcome = "return"
  /\ log = <<"open", "pragma", "createTracking", "check">>
  /\ HasTrackingRow(migrations, "001_initial")

\* C15: an initialize call that opens a connection executes the pragma
\* exactly once, as the first statement on that connection; the statements
\* that follow run only when the pragma took effect; an initialize call that
\* opens no connection executes nothing, so no connection gets a second pragma
C15_PragmaFirstOncePerConnection ==
  /\ [](\A c \in 1..Len(conns) : conns[c].pragmas <= 1)
  /\ [][(last'.call = "initialize" /\ Initialize)
          => /\ Len(conns') > Len(conns) =>
                  /\ Executes(log') # <<>>
                  /\ Head(Executes(log')) = "pragma"
                  /\ Count(log', "pragma") = 1
             /\ Len(conns') = Len(conns) => Executes(log') = <<>>
             /\ Len(Executes(log')) > 1 => conns'[db'].pragmas = 1]_vars

\* the connection opened after a close got its own pragma
C15_Witness ==
  /\ last.call = "initialize"
  /\ db = 2
  /\ conns[1].pragmas = 1
  /\ conns[2].pragmas = 1
  /\ Len(Executes(log)) > 1

\* the tables the schema is expected to hold after initialize
ExpectedTables ==
  {"exams", "topics", "questions", "exhibits", "question_exhibits",
   "attempts", "attempt_items", "progress", "user_preferences",
   "content_packs", "migrations"}

\* C14: when initialize returns normally on a store that was empty, the
\* tracking table holds exactly one row, for 001_initial, and tableExists is
\* true for every expected table
C14_FreshStoreFullyMigrated ==
  [][(tables = {} /\ migrations = <<>> /\ last'.call = "initialize"
      /\ last'.outcome = "return" /\ Initialize)
       => /\ Len(migrations') = 1
          /\ migrations'[1].version = "001_initial"
          /\ \A n \in ExpectedTables : TableExistsValue(tables', n)]_vars

\* C16: getInstance, getConnection, tableExists, getAllTables and
\* loadFixtures leave the connection handle as it was, whether they return
\* or throw
C16_HandleOnlySetByInitializeAndClose ==
  [][(last'.call \in {"getInstance", "getConnection", "tableExists",
                      "getAllTables", "loadFixtures"}
      /\ db' # db)
       => ~(GetInstance \/ GetConnection \/ TableExists \/ GetAllTables
              \/ LoadFixtures)]_vars

\* a loadFixtures call that threw in an insert and left the handle set
C16_Witness ==
  /\ last.call = "loadFixtures"
  /\ last.outcome = "throw"
  /\ log # <<>>
  /\ db # NULL

\* the row loadFixtures writes with a statement at the time now
FixtureRow(ins, now) ==
  [key |-> ins.key, at |-> IF ins.stamped THEN now ELSE 0]

\* C17: no fixture table ever holds two rows with one primary key, and when
\* loadFixtures returns each fixture key has exactly one row, holding the
\* values of that call
C17_FixturesUpsert ==
  /\ [](\A i \in 1..Len(FixtureInserts) :
          Len(RowsWithKey(tableRows[FixtureInserts[i].table],
                          FixtureInserts[i].key)) <= 1)
  /\ [][(last'.call = "loadFixtures" /\ last'.outcome = "return"
          /\ LoadFixtures)
          => \A i \in 1..Len(FixtureInserts) :
               RowsWithKey(tableRows'[FixtureInserts[i].table],
                           FixtureInserts[i].key)
                 = <<FixtureRow(FixtureInserts[i], clock)>>]_vars

\* loadFixtures returned at a later time than the schema was created and
\* every fixture row carries the time of this call
C17_Witness ==
  /\ last.call = "loadFixtures"
  /\ last.outcome = "return"
  /\ AllMigrationsRecorded
  /\ migrations[1].applied_at < clock
  /\ \A i \in 1..Len(FixtureInserts) :
       tableRows[FixtureInserts[i].table] = <<FixtureRow(FixtureInserts[i], clock)>>

\* the errors the store throws, as opposed to the errors the manager makes
StoreErrors == {StoreError, NoSuchTableError, ForeignKeyError}

FixtureOps == [i \in 1..Len(FixtureInserts) |-> FixtureInserts[i].op]

\* C18: when an insert of loadFixtures throws, loadFixtures throws the
\* store's error itself, every insert before the failing one was executed
\* once, the failing one once, and none after it: their tables are unchanged
C18_FixtureErrorPropagates ==
  [][(last'.call = "loadFixtures" /\ last'.outcome = "throw" /\ log' # <<>>
      /\ LoadFixtures)
       => /\ last'.error \in StoreErrors
          /\ IsPrefix(log', FixtureOps)
          /\ \A i \in Len(log')..Len(FixtureInserts) :
               tableRows'[FixtureInserts[i].table]
                 = tableRows[FixtureInserts[i].table]]_vars

\* the question insert threw after the exam and the topic were written
C18_Witness ==
  /\ last.call = "loadFixtures"
  /\ last.outcome = "throw"
  /\ last.error = StoreError
  /\ log = <<"insertExam", "insertTopic", "insertQuestion">>
  /\ tableRows["topics"] # <<>>
  /\ tableRows["questions"] = <<>>
  /\ "questions" \in tables

\* C19: a tableExists call that returns yields true exactly when the
\* catalog holds a table with the name passed, and changes neither the store
\* nor the manager
C19_TableExistsReadsCatalog ==
  [][(last'.call = "tableExists" /\ last'.outcome = "return" /\ TableExists)
       => /\ last'.exists <=> (last'.arg \in tables)
          /\ UNCHANGED <<instance, db, conns, tables, migrations,
                         tableRows>>]_vars

\* false for a missing name on a store that has the schema
C19_Witness ==
  /\ last.call = "tableExists"
  /\ last.outcome = "return"
  /\ last.arg = "does_not_exist"
  /\ ~last.exists
  /\ "exams" \in tables

\* the name starts with sqlite_
StartsWithSqlite_(n) ==
  /\ Len(Chars(n)) >= 7
  /\ SubSeq(Chars(n), 1, 7) = <<115, 113, 108, 105, 116, 101, 95>>

\* C20: a getAllTables call that returns yields the names of the rows of
\* the catalog query in the order of the rows; they are strictly ascending
\* in binary order (so none is repeated), none starts with sqlite_, and they
\* are all the tables of the store whose name does not start with sqlite_
C20_AllTablesSorted ==
  [][(last'.call = "getAllTables" /\ last'.outcome = "return" /\ GetAllTables)
       => LET ns == last'.names
              rs == CatalogRows(tables) IN
          /\ \A i \in 1..(Len(ns) - 1) : LexLess(Chars(ns[i]), Chars(ns[i + 1]))
          /\ \A i \in 1..Len(ns) : ~StartsWithSqlite_(ns[i])
          /\ Range(ns) = {n \in tables : ~StartsWithSqlite_(n)}
          /\ Len(ns) = Len(rs)
          /\ \A i \in 1..Len(ns) : ns[i] = rs[i].name]_vars

\* all eleven tables returned from a store that also holds sqlite_stat1
C20_Witness ==
  /\ last.call = "getAllTables"
  /\ last.outcome = "return"
  /\ InternalTable \in tables
  /\ Len(last.names) = 11

\* the keys of an object and the value of a key
Keys(o) == {o.items[i].s : i \in 1..Len(o.items)}

Get(o, key) ==
  LET i == CHOOSE j \in 1..Len(o.items) : o.items[j].s = key IN
  o.items[i].items[1]

\* expect(a).toEqual(b): recursive equality, the order of keys is ignored
RECURSIVE ToEqual(_, _)
ToEqual(a, b) ==
  /\ a.t = b.t
  /\ CASE a.t = "object" ->
            /\ Keys(a) = Keys(b)
            /\ \A key \in Keys(a) : ToEqual(Get(a, key), Get(b, key))
       [] a.t = "array" ->
            /\ Len(a.items) = Len(b.items)
            /\ \A i \in 1..Len(a.items) : ToEqual(a.items[i], b.items[i])
       [] OTHER -> a.s = b.s

\* the ids of the choices in order, the ids of the choices marked correct and
\* the ids listed under correct
ChoiceIds(content) ==
  [i \in 1..Len(Get(content, "choices").items) |->
     Get(Get(content, "choices").items[i], "id").s]

MarkedCorrect(content) ==
  {Get(c, "id").s :
     c \in {d \in Range(Get(content, "choices").items) :
              "isCorrect" \in Keys(d) /\ Get(d, "isCorrect") = JBool(TRUE)}}

CorrectIds(content) ==
  {Get(content, "correct").items[i].s :
     i \in 1..Len(Get(content, "correct").items)}

\* C21: the content text loadFixtures builds for the fixture question parses
\* back to the literal structure: the stem, the choices A, B, C, D in this
\* order with only A marked correct, correct = ['A'], shuffleChoices true; the
\* ids under correct are the ids of the marked choices; and every content
\* object parses back to itself
C21_FixtureContentRoundTrips ==
  jsonPc = "parsed" =>
    /\ jsonOut = jsonIn
    /\ jsonIn = QuestionContent =>
         /\ ToEqual(jsonOut, ExpectedQuestionContent)
         /\ Get(jsonOut, "stem")
              = JStr("Which activity is part of Business Analysis Planning?")
         /\ ChoiceIds(jsonOut) = <<"A", "B", "C", "D">>
         /\ \A i \in 1..4 : Keys(Get(jsonOut, "choices").items[i])
                              = {"id", "text", "isCorrect"}
         /\ MarkedCorrect(jsonOut) = {"A"}
         /\ Get(jsonOut, "correct") = JArr(<<JStr("A")>>)
         /\ Get(jsonOut, "shuffleChoices") = JBool(TRUE)
         /\ CorrectIds(jsonOut) = MarkedCorrect(jsonOut)

\* the fixture's content was serialized and parsed
C21_Witness ==
  /\ jsonPc = "parsed"
  /\ jsonIn = QuestionContent
  /\ Len(jsonText) > Len(ChoiceIds(jsonIn))
  /\ jsonOut # JNull

\* no association row and no attempt item references a missing question,
\* exhibit or attempt
NoOrphans ==
  /\ \A r \in storeRows["question_exhibits"] :
       /\ [id |-> r.question_id] \in storeRows["questions"]
       /\ [id |-> r.exhibit_id] \in storeRows["exhibits"]
  /\ \A r \in storeRows["attempt_items"] :
       /\ [id |-> r.attempt_id] \in storeRows["attempts"]
       /\ [id |-> r.question_id] \in storeRows["questions"]

C23_DisabledButtonIgnoresPress ==
  [][(uiLast'.event = "press" /\ ButtonPress)
       => /\ (buttonProps.disabled \/ buttonProps.loading) =>
               (onPressCalls' = onPressCalls /\ ~uiLast'.invoked)
          /\ (~buttonProps.disabled /\ ~buttonProps.loading
              /\ buttonProps.onPress = "handler") =>
               (onPressCalls' = onPressCalls + 1 /\ uiLast'.invoked)]_vars

\* a press that ran the handler, then a press on the same Button rendered as
\* loading that did not
C23_Witness ==
  /\ mounted = "button"
  /\ uiLast.event = "press"
  /\ buttonProps.loading
  /\ ~buttonProps.disabled
  /\ buttonProps.onPress = "handler"
  /\ ~uiLast.invoked
  /\ onPressCalls = 1

\* the height and the minimum width of the rendered Button
RenderedHeight == ButtonStyle(buttonProps, Theme(colorScheme)).height

RenderedMinWidth == ButtonStyle(buttonProps, Theme(colorScheme)).minWidth

C25_CardInteractiveOnly ==
  /\ [](mounted = "card" =>
          LET card == RenderedCard(cardProps) IN
          IF cardProps.interactive = "true"
          THEN card.type = "Pressable" /\ card.accessibilityRole = "button"
          ELSE card.type = "View" /\ card.accessibilityRole # "button")
  /\ [][(uiLast'.event = "press" /\ CardPress)
          => IF cardProps.interactive = "true" /\ cardProps.onPress = "handler"
             THEN onPressCalls' = onPressCalls + 1 /\ uiLast'.invoked
             ELSE onPressCalls' = onPressCalls /\ ~uiLast'.invoked]_vars

\* a second press on an interactive Card ran the handler a second time
C25_Witness ==
  /\ mounted = "card"
  /\ cardProps.interactive = "true"
  /\ uiLast.event = "press"
  /\ uiLast.invoked
  /\ onPressCalls = 2

\* C30: the pressed flag of the Button goes from false to true only in a
\* press-in event on a Button that is neither disabled nor loading; every
\* press-out event leaves it false; a Button that was disabled or loading in
\* every render never has the flag set
C30_PressedOnlyWhileEnabled ==
  /\ [][(~isPressed /\ isPressed')
          => /\ ButtonPressIn
             /\ ~buttonProps.disabled
             /\ ~buttonProps.loading]_vars
  /\ [][(uiLast'.event = "pressOut" /\ ButtonPressOut) => ~isPressed']_vars
  /\ [](~everEnabled => ~isPressed)

\* press-in and press-out events on a Button that was never enabled
C30_Witness ==
  /\ mounted = "button"
  /\ ~everEnabled
  /\ uiLast.event = "pressIn"
  /\ buttonProps.disabled
  /\ buttonProps.loading
  /\ ~isPressed

\* C26: the rows of the tracking table are never changed or removed; a row
\* is added only by an initialize call that returns and that executed the
\* batch of the version and, after it, the insert of the row; so whenever the
\* row of 001_initial exists the tables of its batch exist
C26_TrackingRowOnlyAfterBatch ==
  /\ [][IsPrefix(migrations, migrations')]_vars
  /\ [][(migrations' # migrations)
          => /\ Initialize
             /\ last'.call = "initialize"
             /\ last'.outcome = "return"
             /\ Len(migrations') = Len(migrations) + 1
             /\ Len(log') >= 2
             /\ SubSeq(log', Len(log') - 1, Len(log')) = <<"batch", "insert">>
             /\ Count(log', "batch") = 1
             /\ Range(Migration001Tables) \subseteq tables']_vars
  /\ [](HasTrackingRow(migrations, "001_initial")
          => Range(Migration001Tables) \subseteq tables)

\* the initialize call that executed the batch and recorded it
C26_Witness ==
  /\ last.call = "initialize"
  /\ last.outcome = "return"
  /\ log = <<"open", "pragma", "createTracking", "check", "batch", "insert">>
  /\ Len(migrations) = 1
  /\ migrations[1].version = "001_initial"

\* C28: close on an initialized manager clears the handle; while the handle
\* is null getConnection, tableExists, getAllTables and loadFixtures throw
\* without touching the store and leave the handle null; the initialize that
\* follows a close calls open first and, when it returns, holds a new
\* connection on which it executed the pragma, the tracking-table creation
\* and the version check; it does not execute a recorded migration again
C28_ClosedUntilReinitialized ==
  /\ [][(initOk /\ last'.call = "close" /\ Close)
          => (db' = NULL /\ ~initOk')]_vars
  /\ [][(db = NULL
          /\ last'.call \in {"getConnection", "tableExists", "getAllTables",
                             "loadFixtures"}
          /\ (GetConnection \/ TableExists \/ GetAllTables \/ LoadFixtures))
          => /\ last'.outcome = "throw"
             /\ log' = <<>>
             /\ db' = NULL]_vars
  /\ [][(db = NULL /\ conns # <<>> /\ last'.call = "initialize" /\ Initialize)
          => /\ log' # <<>>
             /\ Head(log') = "open"
             /\ last'.outcome = "return" =>
                  /\ db' = Len(conns) + 1
                  /\ conns'[db'].closes = 0
                  /\ conns'[db'].pragmas = 1
                  /\ IsPrefix(<<"open", "pragma", "createTracking", "check">>,
                              log')
             /\ HasTrackingRow(migrations, "001_initial") =>
                  /\ Count(log', "batch") = 0
                  /\ migrations' = migrations]_vars

\* a manager that was initialized, closed and initialized again
C28_Witness ==
  /\ last.call = "initialize"
  /\ last.outcome = "return"
  /\ initOk
  /\ Opened = 2
  /\ conns[1].closes = 1
  /\ conns[1].pragmas = 1
  /\ db = 2
  /\ log = <<"open", "pragma", "createTracking", "check">>

\* the order of the inserts the tests expect
FixtureOrder ==
  <<"insertExam", "insertTopic", "insertQuestion", "insertContentPack">>

\* C29: loadFixtures executes its inserts in the order exam, topic, question,
\* content pack; every row an insert references is written by an insert
\* before it; on a store that has the schema no insert fails on a foreign
\* key, with or without enforcement
C29_FixtureOrderRespectsForeignKeys ==
  /\ [](\A i \in 1..Len(FixtureInserts) :
          \A parent \in FixtureInserts[i].parents :
            \E j \in 1..(i - 1) :
              /\ FixtureInserts[j].table = parent.table
              /\ FixtureInserts[j].key = parent.key)
  /\ [][(db # NULL /\ FixtureTables \subseteq tables
          /\ last'.call = "loadFixtures" /\ LoadFixtures)
          => /\ IsPrefix(log', FixtureOrder)
             /\ last'.error \notin {ForeignKeyError, NoSuchTableError}
             /\ last'.outcome = "return" =>
                  /\ log' = FixtureOrder
                  /\ \A i \in 1..Len(FixtureInserts) :
                       \A parent \in FixtureInserts[i].parents :
                         RowsWithKey(tableRows'[parent.table], parent.key)
                           # <<>>]_vars

\* the fixtures were loaded into empty tables on a connection that enforces
\* the foreign keys
C29_Witness ==
  /\ last.call = "loadFixtures"
  /\ last.outcome = "return"
  /\ log = FixtureOrder
  /\ db # NULL
  /\ conns[db].pragmas = 1
  /\ \A t \in FixtureTables : Len(tableRows[t]) = 1

\* C27: callers invoke initialize concurrently before any connection exists.
\* At most one connection is ever opened, and the pragma and the batch of
\* 001_initial are executed at most once each.  The call whose open succeeds
\* sets the handle and executes the pragma in the same uninterrupted step;
\* when that is the first call, open and the pragma have been executed
\* exactly once.  Once the handle is set no step touches the store: the call
\* that set it resumes without store work, and every other call takes the
\* already-initialized path and returns with no store primitive invoked
C27_ConcurrentInitializeOpensOnce ==
  /\ [](/\ Len(conns) <= 1
        /\ Count(log, "pragma") <= 1
        /\ Count(log, "batch") <= 1
        /\ db # NULL =>
             \E c \in Callers :
               /\ Len(callerLog[c]) >= 2
               /\ SubSeq(callerLog[c], 1, 2) = <<"open", "pragma">>
               /\ \A d \in Callers \ {c} : callerLog[d] \in {<<>>, <<"open">>})
  /\ [][/\ db # NULL =>
             /\ <<db, conns, tables, migrations, log>>'
                  = <<db, conns, tables, migrations, log>>
             /\ \A c \in Callers :
                  (pc[c] = "start" /\ pc'[c] # "start") =>
                    /\ pc'[c] = "done"
                    /\ callerLog'[c] = <<>>
                    /\ callerError'[c] = NoError
        /\ (db = NULL /\ db' # NULL) =>
             /\ Count(log', "open") = Count(log, "open") + 1
             /\ Count(log', "pragma") = 1
             /\ log = <<>> => Count(log', "open") = 1]_vars

\* the first call opened the store, applied the migration and is suspended
\* at the await in the loop of runMigrations; the second call has returned
\* meanwhile without invoking a store primitive
C27_Witness ==
  /\ \E c \in Callers :
       /\ pc[c] = "awaitRunMigration"
       /\ callerLog[c]
            = <<"open", "pragma", "createTracking", "check", "batch", "insert">>
       /\ callerError[c] = NoError
       /\ \E d \in Callers \ {c} :
            /\ pc[d] = "done"
            /\ callerLog[d] = <<>>
            /\ callerError[d] = NoError
  /\ Count(log, "open") = 1
  /\ Count(log, "pragma") = 1
  /\ Count(log, "batch") = 1
  /\ Len(conns) = 1

====
